---------------------------- MODULE Spec2Model ----------------------------
(***************************************************************************)
(* Noisy Bird: the game loop of src/main.py (NoisyBird.play and the run    *)
(* cycle around it), the entities of src/entities.py, the microphone       *)
(* smoother of src/audio.py and the defaults of src/settings.py.           *)
(*                                                                         *)
(* Units.  The source computes with floats; the model uses integers:       *)
(*   - lengths of the game of main.py are in HALF PIXELS (gravity 0.5,     *)
(*     slowed speed 1.5 are whole numbers of half pixels); Px(n) converts  *)
(*     a whole number of pixels, IntPx(v) is Python's int() of a length;   *)
(*   - lengths of the Bird of entities.py are in 1/100 pixel (gravity 0.32)*)
(*   - time is in ticks of 1/60 s (one frame of CLOCK.tick(FPS));          *)
(*   - volumes are in 1/100, sensitivities in 1/10, their product in       *)
(*     1/1000.                                                             *)
(* Clock.  The code compares time.time() with slow_until / double_until    *)
(* and nothing else; the model keeps both timestamps relative to the       *)
(* clock reading of the frame being simulated (time left, 0 = expired):    *)
(* "time.time() < slow_until" is "slow_until > 0", "time.time() + 4.0" is  *)
(* EffectSlow.  One reading of the clock is taken per frame.               *)
(***************************************************************************)
EXTENDS Integers, Sequences, FiniteSets, TLC

VARIABLES
    state,          \* "Menu" | "Playing" | "RoundOver": where NoisyBird.run is
    bird_y,         \* Bird.y
    bird_vel,       \* Bird.vel_y
    blocks,         \* NoisyBird.blocks: sequence of Block records
    powerups,       \* NoisyBird.powerups: sequence of PowerUp records
    score,          \* NoisyBird.score
    highscore,      \* NoisyBird.highscore
    spawn_timer,    \* NoisyBird.spawn_timer (ticks)
    slow_until,     \* NoisyBird.slow_until, as time left (ticks)
    double_until,   \* NoisyBird.double_until, as time left (ticks)
    stream,         \* NoisyBird.stream: "open" | "none"
    paused,         \* NoisyBird.paused
    last_volume,    \* NoisyBird._last_volume (class attribute, 1/100)
    sensitivity,    \* settings['sensitivity'] (1/10)
    next_id,        \* identity of the next Block object created in the round
    obs,            \* observer: what the last loop iteration did
    iter,           \* observer: loop iterations so far (budget of SpecFree)
    history,        \* VolumeSmoother.history
    window,         \* VolumeSmoother.window
    fed,            \* observer: every sample handed to VolumeSmoother.add
    inp,            \* inputs of the function under study (function specs)
    out             \* its result

vars == <<state, bird_y, bird_vel, blocks, powerups, score, highscore,
          spawn_timer, slow_until, double_until, stream, paused, last_volume,
          sensitivity, next_id, obs, iter, history, window, fed, inp, out>>

gameVars == <<state, bird_y, bird_vel, blocks, powerups, score, highscore,
              spawn_timer, slow_until, double_until, stream, paused,
              last_volume, sensitivity, next_id, obs>>

smootherVars == <<history, window, fed>>

funVars == <<inp, out>>

-----------------------------------------------------------------------------
(* Program constants *)

WIDTH == 800
HEIGHT == 500
FPS == 60

\* Bird(150, 200, settings); the image is 40 x 30
BIRD_X == 150
BIRD_Y == 200
BIRD_W == 40
BIRD_H == 30

\* Bird of main.py, half pixels per frame: gravity 0.5, jump 8.0, max_fall 12.0
gravity == 1
jump == 16
max_fall == 24

\* Bird of entities.py, 1/100 pixel per frame: 0.32, 9.0, 7.0
E_gravity == 32
E_jump_strength == 900
E_max_fall == 700

\* NoisyBird.__init__ / play: block_speed 3.0 (half pixels: 6), block_w 60
block_speed == 6
block_w == 60
\* spawn_interval 1.8 s = 108 ticks
spawn_interval == 108
\* Block(WIDTH + 20, ...), PowerUp(kind, WIDTH + 50, y), PowerUp.size
BLOCK_MARGIN == 20
PU_MARGIN == 50
PU_SIZE == 26
\* off-screen margin of Block.off: x + w < -10
OFF_MARGIN == 10
\* time.time() + 4.0, time.time() + 5.0, in ticks
EffectSlow == 240
EffectDouble == 300
\* the flap test of play(): volume * sensitivity > 1.0, in 1/1000
FLAP_LEVEL == 1000
\* DEFAULT_SETTINGS of settings.py: sensitivity 0.6 (1/10), mic_threshold 0.07 (1/1000)
S_sensitivity == 6
S_mic_threshold == 70
\* DEFAULT_SETTINGS of main.py: sensitivity 1.0
M_sensitivity == 10
\* VolumeSmoother(window=6)
DEFAULT_WINDOW == 6

Px(n) == 2 * n

\* Python int() of a length in half pixels: truncation toward zero
IntPx(v) == IF v >= 0 THEN v \div 2 ELSE -((-v) \div 2)

block_gap == BIRD_H * 4

-----------------------------------------------------------------------------
(* Helpers *)

Min(a, b) == IF a <= b THEN a ELSE b
Max(a, b) == IF a >= b THEN a ELSE b

clamp(v, a, b) == Max(a, Min(b, v))

\* pygame.Rect as [x, y, w, h] in whole pixels
Rect(x, y, w, h) == [x |-> x, y |-> y, w |-> w, h |-> h]

\* pygame.Rect.colliderect: strict overlap, never with an empty rectangle
colliderect(a, b) ==
    /\ a.w # 0 /\ a.h # 0 /\ b.w # 0 /\ b.h # 0
    /\ Min(a.x, a.x + a.w) < Max(b.x, b.x + b.w)
    /\ Min(a.y, a.y + a.h) < Max(b.y, b.y + b.h)
    /\ Max(a.x, a.x + a.w) > Min(b.x, b.x + b.w)
    /\ Max(a.y, a.y + a.h) > Min(b.y, b.y + b.h)

-----------------------------------------------------------------------------
(* Bird (main.py 98-138) *)

\* a flap that adds its impulse to the velocity
flap_additive(vel) == vel - jump

\* Bird.flap: the velocity after a flap, whatever it was
flap(vel) == -jump

\* Bird.step, the velocity: gravity, then the clamp
step_vel(vel) == clamp(vel + gravity, -max_fall, max_fall)

\* a step that integrates the velocity before it is clamped
step_y_unclamped(y, vel) == y + vel + gravity

\* Bird.step, the position: the clamped velocity is integrated
step_y(y, vel) == y + step_vel(vel)

\* an out-of-bounds test that lets the bird sink below the bottom edge by its
\* own height, as it lets it rise above the top edge
is_out_symmetric(y) == y < -Px(BIRD_H) \/ y > Px(HEIGHT + BIRD_H)

\* Bird.is_out
is_out(y) == y < -Px(BIRD_H) \/ y > Px(HEIGHT - BIRD_H)

(* Bird (entities.py 6-43), lengths in 1/100 pixel *)

E_flap(vel) == -E_jump_strength

E_update_vel(vel) == clamp(vel + E_gravity, -E_max_fall, E_max_fall)

E_update_y(y, vel) == y + E_update_vel(vel)

bird_rect(bx, by) == Rect(IntPx(bx), IntPx(by), BIRD_W, BIRD_H)

(* Block (main.py 140-162) *)

\* Block(x, w, top_h, gap); aw is an observer field: how many times this
\* object has added to the score
Block(id, x, w, top_h, gap) ==
    [id |-> id, x |-> x, w |-> w, top_h |-> top_h, gap |-> gap,
     passed |-> FALSE, aw |-> 0]

move(b, speed) == [b EXCEPT !.x = @ - speed]

\* an off-screen test that counts the block whose trailing edge is on the margin
off_inclusive(b) == b.x + Px(b.w) <= -Px(OFF_MARGIN)

off(b) == b.x + Px(b.w) < -Px(OFF_MARGIN)

\* Block.off_screen (entities.py 60-61)
off_screen(b) == b.x + Px(b.w) < -Px(OFF_MARGIN)

\* a collision test whose bottom segment starts where the top one ends
collide_no_gap(b, bx, by) ==
    colliderect(bird_rect(bx, by), Rect(IntPx(b.x), 0, b.w, HEIGHT))

collide(b, bx, by) ==
    LET top == Rect(IntPx(b.x), 0, b.w, b.top_h)
        bottom == Rect(IntPx(b.x), b.top_h + b.gap, b.w,
                       HEIGHT - (b.top_h + b.gap))
    IN  colliderect(bird_rect(bx, by), top)
        \/ colliderect(bird_rect(bx, by), bottom)

\* Block.collide_with (entities.py 63-67): the bottom segment is int(1e6) high
collide_with(b, bx, by) ==
    LET top == Rect(IntPx(b.x), 0, b.w, b.top_h)
        bottom == Rect(IntPx(b.x), b.top_h + b.gap, b.w, 1000000)
    IN  colliderect(bird_rect(bx, by), top)
        \/ colliderect(bird_rect(bx, by), bottom)

(* PowerUp (main.py 164-187); rx, ry is PowerUp.rect.topleft.  The observer *)
(* adds id, the number of the spawn that made it, used, the number of times  *)
(* its effect was applied, and over, the time the effect of its kind still  *)
(* had left when it was collected.                                          *)

PowerUp(kind, x, y) ==
    [kind |-> kind, x |-> x, y |-> y, active |-> TRUE,
     rx |-> IntPx(x), ry |-> y, id |-> 0, used |-> 0, over |-> 0]

pu_move(p, speed) ==
    LET nx == p.x - speed
    IN  [p EXCEPT !.x = nx, !.rx = IntPx(nx), !.ry = p.y,
                  !.active = IF nx < -Px(PU_SIZE) THEN FALSE ELSE @]

\* PowerUp.check, the test
pu_check(p, bx, by) ==
    colliderect(Rect(p.rx, p.ry, PU_SIZE, PU_SIZE), bird_rect(bx, by))

\* a check that forgets to deactivate the power-up
pu_collected_stays_active(p) == [p EXCEPT !.used = @ + 1]

\* PowerUp.check on a hit (line 185) and the effect the loop then applies
pu_collected(p) == [p EXCEPT !.active = FALSE, !.used = @ + 1]

-----------------------------------------------------------------------------
(* NoisyBird.play, the loop body (main.py 387-482) *)

\* line 418: the microphone flap test
mic_flap(volume, sens) == volume * sens > FLAP_LEVEL

\* a draw of top_h over the whole height of the window
top_draws_full == 0..HEIGHT

\* line 248: the values of random.randint(0, HEIGHT // 2), both ends included
top_draws == 0..(HEIGHT \div 2)

\* spawn_block (lines 247-249) with the draw top_h; id numbers the blocks of
\* a round
spawn_block(id, top_h) ==
    Block(id, Px(WIDTH + BLOCK_MARGIN), block_w, top_h, block_gap)

\* line 423: the spawn test on the accumulated timer
spawn_due(t) == t > spawn_interval

\* a timer that keeps what it accumulated beyond the interval
timer_after_spawn_carry(t) == t - spawn_interval

\* line 424: self.spawn_timer = 0
timer_after_spawn(t) == 0

\* a scroll speed that the slow effect does not change
scroll_speed_full(slow) == block_speed

\* line 428: the scroll speed of the frame
scroll_speed(slow) == IF slow > 0 THEN block_speed \div 2 ELSE block_speed

\* line 438: the points of a passed block
points(dbl) == IF dbl > 0 THEN 2 ELSE 1

\* the leading edge of the block instead
leading_edge(b) == b.x

\* line 436: block.x + block.w, the edge that the scoring test compares with
\* the bird's x
trailing_edge(b) == b.x + Px(b.w)

\* a scoring test that forgets the passed flag
scores_unlatched(b) == b.x + Px(b.w) < Px(BIRD_X)

\* line 436: the scoring test
scores(b) == ~b.passed /\ trailing_edge(b) < Px(BIRD_X)

\* a loop over self.blocks itself: removing the visited block shifts the list
\* under the iterator, which then skips the block that followed
rest_of_list(rest) ==
    IF rest = <<>> THEN [skipped |-> <<>>, todo |-> <<>>]
    ELSE [skipped |-> <<Head(rest)>>, todo |-> Tail(rest)]

\* line 429, `for block in list(self.blocks)`: what the loop still visits
\* after self.blocks.remove(block) (line 448), the rest of the copy, and what
\* it skips
rest_of_copy(rest) == [skipped |-> <<>>, todo |-> rest]

\* lines 429-450: the pass over list(self.blocks).  todo: the copy's blocks
\* not yet visited; kept: what self.blocks holds of the visited ones.
RECURSIVE blocks_pass(_, _, _, _, _, _)
blocks_pass(todo, kept, sc, speed, dbl, by) ==
    IF todo = <<>> THEN [blocks |-> kept, score |-> sc, hit |-> FALSE]
    ELSE
      LET b1 == move(Head(todo), speed)
      IN  IF collide(b1, Px(BIRD_X), by)
          THEN [blocks |-> kept \o <<b1>> \o Tail(todo), score |-> sc,
                hit |-> TRUE]
          ELSE
            LET sco == scores(b1)
                b2 == IF sco THEN [b1 EXCEPT !.passed = TRUE, !.aw = @ + 1]
                      ELSE b1
                sc2 == IF sco THEN sc + points(dbl) ELSE sc
                rest == IF off(b2) THEN rest_of_copy(Tail(todo))
                        ELSE [skipped |-> <<>>, todo |-> Tail(todo)]
            IN  blocks_pass(rest.todo,
                            (IF off(b2) THEN kept ELSE Append(kept, b2))
                                \o rest.skipped,
                            sc2, speed, dbl, by)

\* an effect that is added to the time an active effect has left
apply_slow_additive(slow) == slow + EffectSlow

\* line 457: self.slow_until = time.time() + 4.0
apply_slow(slow) == EffectSlow

\* line 459: self.double_until = time.time() + 5.0
apply_double(dbl) == EffectDouble

\* lines 451-470: the pass over list(self.powerups)
RECURSIVE powerups_pass(_, _, _, _, _, _)
powerups_pass(todo, kept, slow, dbl, speed, by) ==
    IF todo = <<>>
    THEN [powerups |-> kept, slow_until |-> slow, double_until |-> dbl]
    ELSE
      LET p1 == pu_move(Head(todo), speed)
      IN  IF p1.active
          THEN IF pu_check(p1, Px(BIRD_X), by)
               THEN powerups_pass(Tail(todo),
                        Append(kept,
                               [pu_collected(p1) EXCEPT
                                   !.over = IF p1.kind = "slow" THEN slow
                                            ELSE dbl]),
                        IF p1.kind = "slow" THEN apply_slow(slow) ELSE slow,
                        IF p1.kind = "slow" THEN dbl ELSE apply_double(dbl),
                        speed, by)
               ELSE powerups_pass(Tail(todo), Append(kept, p1), slow, dbl,
                                  speed, by)
          ELSE powerups_pass(Tail(todo), kept, slow, dbl, speed, by)

\* a round end that stores the score whatever the highscore was
end_highscore_always(hs, sc) == sc

\* lines 484-486: the highscore after a round that ended with score sc
end_highscore(hs, sc) == IF sc > hs THEN sc ELSE hs

\* the time left of an effect after dt more ticks
left(until, dt) == Max(0, until - dt)

\* The observer's record of a loop iteration: the event handled, whether the
\* key and the microphone test called Bird.flap, the volume read, the calls of
\* Bird.play_die, how the round ended in it ("none": it did not), how the round
\* before ended (kept in the record of "start" alone), and every volume a
\* frame has read since construction, and the time the iteration took.
Obs(op, key, fk, fm, vol, dies, ended, prev, heard, dt) ==
    [op |-> op, key |-> key, flapKey |-> fk, flapMic |-> fm, volume |-> vol,
     dies |-> dies, ended |-> ended, prev |-> prev, heard |-> heard,
     dt |-> dt]

-----------------------------------------------------------------------------
(* Bounds and input sets *)

\* blocks spawned in one round
MaxSpawns == 3
\* the player of Spec makes noise when the bird sinks to this line (half pixels)
ClapLine == 500
\* a frame that took long (ticks): more than two spawn intervals
LongDt == 250
\* the volume of a clap, and of background noise (1/100)
Loud == 200
Murmur == 15

\* no block is spawned in the frame
NoTop == 0 - 1
NoPu == [kind |-> "none", y |-> 0]

\* values of random.randint(0, HEIGHT // 2) that are tried
Tops == {0, 180, HEIGHT \div 2}
\* outcomes of spawn_powerup that are tried: kind, random.randint(60, HEIGHT - 80)
PuChoices == {[kind |-> k, y |-> y] : k \in {"slow", "double"}, y \in {240}}
\* key events that are tried, at most one per loop iteration; QUIT acts as ESC
Keys == {"none", "SPACE", "p", "ESC"}

-----------------------------------------------------------------------------
(* Actions *)

\* NoisyBird() (main.py 197-221) but for its Bird: the state after
\* construction, with the persisted sensitivity and highscore drawn from sens
\* and hs
InitSession(sens, hs) ==
    /\ state = "Menu"
    /\ blocks = <<>> /\ powerups = <<>>
    /\ score = 0 /\ highscore \in hs
    /\ spawn_timer = 0 /\ slow_until = 0 /\ double_until = 0
    /\ stream = "none" /\ paused = FALSE
    /\ last_volume = 0
    /\ sensitivity \in sens
    /\ next_id = 0
    /\ obs = Obs("init", "none", FALSE, FALSE, 0, 0, "none", "none", {}, 0)
    /\ iter = 0

\* NoisyBird() with its Bird(150, 200, settings)
InitGame(sens, hs) ==
    /\ bird_y = Px(BIRD_Y) /\ bird_vel = 0
    /\ InitSession(sens, hs)

\* VolumeSmoother() and the function variables, where they are not used
IdleSmoother == history = <<>> /\ window = DEFAULT_WINDOW /\ fed = <<>>
IdleFun == inp = <<>> /\ out = <<>>

\* a reset that keeps the obstacles and the slow effect of the round before
play_reset_stale ==
    [bird_y |-> Px(BIRD_Y), bird_vel |-> 0, score |-> 0, blocks |-> blocks,
     powerups |-> <<>>, spawn_timer |-> 0, slow_until |-> slow_until,
     double_until |-> 0, paused |-> FALSE]

\* play(), lines 374-383: what a new round starts from
play_reset ==
    [bird_y |-> Px(BIRD_Y), bird_vel |-> 0, score |-> 0, blocks |-> <<>>,
     powerups |-> <<>>, spawn_timer |-> 0, slow_until |-> 0,
     double_until |-> 0, paused |-> FALSE]

\* try_start_stream (main.py 231-236); ok: whether sd.InputStream opened and
\* started
try_start_stream(ok) == IF ok THEN "open" ELSE "none"

\* a stop_stream that leaves the stream as it is
stop_stream_skipped(st) == st

\* stop_stream (main.py 238-245): self.stream is None afterwards, whether it
\* was open or not and whether stop() raised or not
stop_stream(st) == "none"

\* main_menu returns on Start, then play() up to its loop (main.py 373-386);
\* ok: whether sd.InputStream opened and started
MenuStart(ok) ==
    /\ state = "Menu"
    /\ state' = "Playing"
    /\ bird_y' = play_reset.bird_y /\ bird_vel' = play_reset.bird_vel
    /\ score' = play_reset.score
    /\ blocks' = play_reset.blocks /\ powerups' = play_reset.powerups
    /\ spawn_timer' = play_reset.spawn_timer
    /\ slow_until' = play_reset.slow_until
    /\ double_until' = play_reset.double_until
    /\ paused' = play_reset.paused
    /\ stream' = try_start_stream(ok)
    /\ next_id' = 0
    /\ obs' = Obs("start", "none", FALSE, FALSE, 0, 0, "none", obs.ended,
                obs.heard, 0)
    /\ UNCHANGED <<highscore, last_volume, sensitivity>>
    /\ UNCHANGED <<iter, smootherVars, funVars>>

\* game_over_screen returns on any key and run() loops to the menu
GameOverKey ==
    /\ state = "RoundOver"
    /\ state' = "Menu"
    /\ UNCHANGED <<bird_y, bird_vel, blocks, powerups, score, highscore,
                   spawn_timer, slow_until, double_until, stream, paused,
                   last_volume, sensitivity, next_id, obs>>
    /\ UNCHANGED <<iter, smootherVars, funVars>>

\* a callback that flaps the bird itself instead of leaving it to the loop
AudioCb_flaps(v) ==
    /\ stream = "open"
    /\ last_volume' = v
    /\ bird_vel' = flap(bird_vel)
    /\ UNCHANGED <<state, bird_y, blocks, powerups, score, highscore,
                   spawn_timer, slow_until, double_until, stream, paused,
                   sensitivity, next_id, obs>>
    /\ UNCHANGED <<iter, smootherVars, funVars>>

\* NoisyBird.audio_cb (main.py 223-229), run by the stream's thread
AudioCb(v) ==
    /\ stream = "open"
    /\ last_volume' = v
    /\ UNCHANGED <<state, bird_y, bird_vel, blocks, powerups, score,
                   highscore, spawn_timer, slow_until, double_until, stream,
                   paused, sensitivity, next_id, obs>>
    /\ UNCHANGED <<iter, smootherVars, funVars>>

\* One iteration of the loop of play() (main.py 387-482) and, when it was the
\* last one, the lines after the loop (483-487).  key: the event of the
\* iteration; dt: the time since the last one; top, pu: the random draws of a
\* spawn; cap: the number of blocks after which the model follows a round
\* no further.  The iteration count iter is left to the specification.
FrameUpTo(cap, key, dt, top, pu) ==
    /\ state = "Playing"
    /\ LET slow0 == left(slow_until, dt)
           dbl0 == left(double_until, dt)
           quit == key = "ESC"
           fk == key = "SPACE"
           paused1 == IF key = "p" THEN ~paused ELSE paused
           vel1 == IF fk THEN flap(bird_vel) ELSE bird_vel
           vol == last_volume
           fm == mic_flap(vol, sensitivity)
           vel2 == IF fm THEN flap(vel1) ELSE vel1
           vel3 == step_vel(vel2)
           y3 == step_y(bird_y, vel2)
           t1 == spawn_timer + dt
           spawn == spawn_due(t1)
           blocks1 == IF spawn
                      THEN Append(blocks, spawn_block(next_id, top))
                      ELSE blocks
           pus1 == IF spawn /\ pu # NoPu
                   THEN Append(powerups,
                               [PowerUp(pu.kind, Px(WIDTH + PU_MARGIN), pu.y)
                                   EXCEPT !.id = next_id])
                   ELSE powerups
           speed == scroll_speed(slow0)
           bp == blocks_pass(blocks1, <<>>, score, speed, dbl0, y3)
           pp == powerups_pass(pus1, <<>>, slow0, dbl0, speed, y3)
           outb == is_out(y3)
           dies == (IF bp.hit THEN 1 ELSE 0) + (IF outb THEN 1 ELSE 0)
           ended == IF bp.hit /\ outb THEN "both"
                    ELSE IF bp.hit THEN "collision"
                    ELSE IF outb THEN "out" ELSE "none"
       IN
       IF quit THEN
            \* running = False; break: nothing of the frame is simulated
            /\ top = NoTop /\ pu = NoPu
            /\ state' = "RoundOver"
            /\ stream' = stop_stream(stream)
            /\ highscore' = end_highscore(highscore, score)
            /\ slow_until' = slow0 /\ double_until' = dbl0
            /\ obs' = Obs("quit", key, FALSE, FALSE, 0, 0, "quit", "none", obs.heard,
                        dt)
            /\ UNCHANGED <<bird_y, bird_vel, blocks, powerups, score,
                           spawn_timer, paused, next_id>>
       ELSE IF paused1 THEN
            \* the events are handled, then "continue"
            /\ top = NoTop /\ pu = NoPu
            /\ paused' = paused1
            /\ bird_vel' = vel1
            /\ slow_until' = slow0 /\ double_until' = dbl0
            /\ obs' = Obs("paused", key, fk, FALSE, 0, 0, "none", "none",
                        obs.heard, dt)
            /\ UNCHANGED <<state, bird_y, blocks, powerups, score, highscore,
                           spawn_timer, stream, next_id>>
       ELSE
            /\ IF spawn THEN next_id < cap /\ top # NoTop
                        ELSE top = NoTop /\ pu = NoPu
            /\ paused' = paused1
            /\ bird_vel' = vel3 /\ bird_y' = y3
            /\ spawn_timer' = IF spawn THEN timer_after_spawn(t1) ELSE t1
            /\ next_id' = IF spawn THEN next_id + 1 ELSE next_id
            /\ blocks' = bp.blocks
            /\ score' = bp.score
            /\ powerups' = pp.powerups
            /\ slow_until' = pp.slow_until
            /\ double_until' = pp.double_until
            /\ obs' = Obs("frame", key, fk, fm, vol, dies, ended, "none",
                        obs.heard \cup {vol}, dt)
            /\ IF bp.hit \/ outb
               THEN /\ state' = "RoundOver"
                    /\ stream' = stop_stream(stream)
                    /\ highscore' = end_highscore(highscore, bp.score)
               ELSE UNCHANGED <<state, stream, highscore>>
    /\ UNCHANGED <<last_volume, sensitivity>>
    /\ UNCHANGED <<smootherVars, funVars>>

\* the loop iteration, followed for MaxSpawns blocks
Frame(key, dt, top, pu) == FrameUpTo(MaxSpawns, key, dt, top, pu)

-----------------------------------------------------------------------------
(* Spec: the game from construction, played by a player who claps when the  *)
(* bird has just sunk to ClapLine and falls silent when it has just risen   *)
(* above it (or misses either moment, and then never recovers), and who     *)
(* may press ESC at two moments of each spawn period.  Frames take one      *)
(* tick; a power-up comes, if at all, with the first block of a round.      *)

JustSunk == bird_y >= ClapLine /\ bird_y - bird_vel < ClapLine
JustRisen == bird_y < ClapLine /\ bird_y - bird_vel >= ClapLine

QuitTimes == {0, 60}

PlayerCb ==
    \/ JustSunk /\ last_volume # Loud /\ AudioCb(Loud)
    \/ JustRisen /\ last_volume # 0 /\ AudioCb(0)

PlayerFrame ==
    /\ \E top \in Tops \cup {NoTop}, pu \in PuChoices \cup {NoPu} :
          /\ pu # NoPu => next_id = 0
          /\ Frame("none", 1, top, pu)
    /\ UNCHANGED iter

PlayerQuit ==
    /\ spawn_timer \in QuitTimes
    /\ Frame("ESC", 1, NoTop, NoPu)
    /\ UNCHANGED iter

Init == InitGame({M_sensitivity}, {0, 1}) /\ IdleSmoother /\ IdleFun

Next ==
    \/ \E ok \in BOOLEAN : MenuStart(ok)
    \/ GameOverKey
    \/ PlayerCb
    \/ PlayerFrame
    \/ PlayerQuit

Spec == Init /\ [][Next]_vars

-----------------------------------------------------------------------------
(* SpecFree: the game from construction with every input free, for MaxIter  *)
(* loop iterations: any volume from the callback at any moment, any key,    *)
(* short and long frames, a power-up with any spawn.                        *)

MaxIter == 3

Volumes == {0, Murmur, Loud}

FreeCb == \E v \in Volumes : v # last_volume /\ AudioCb(v)

FreeFrame ==
    /\ iter < MaxIter
    /\ \E key \in Keys, dt \in {1, LongDt}, top \in {180, NoTop},
          pu \in PuChoices \cup {NoPu} : Frame(key, dt, top, pu)
    /\ iter' = iter + 1

InitFree ==
    InitGame({S_sensitivity, M_sensitivity}, {0}) /\ IdleSmoother /\ IdleFun

NextFree ==
    \/ \E ok \in BOOLEAN : MenuStart(ok)
    \/ GameOverKey
    \/ FreeCb
    \/ FreeFrame

SpecFree == InitFree /\ [][NextFree]_vars

-----------------------------------------------------------------------------
(* SpecBird: one Bird, of main.py or of entities.py, under any interleaving *)
(* of MaxBirdOps calls of flap() and step() / update().  inp: the class;    *)
(* out: the last call and whether flap() was ever called; iter: the calls.  *)

MaxBirdOps == 26

BirdFlap ==
    /\ iter < MaxBirdOps
    /\ bird_vel' = IF inp = "main" THEN flap(bird_vel) ELSE E_flap(bird_vel)
    /\ out' = [op |-> "flap", flapped |-> TRUE]
    /\ iter' = iter + 1
    /\ UNCHANGED <<bird_y, inp, state, blocks, powerups, score, highscore,
                   spawn_timer, slow_until, double_until, stream, paused,
                   last_volume, sensitivity, next_id, obs, smootherVars>>

BirdUpdate ==
    /\ iter < MaxBirdOps
    /\ bird_vel' = IF inp = "main" THEN step_vel(bird_vel)
                   ELSE E_update_vel(bird_vel)
    /\ bird_y' = IF inp = "main" THEN step_y(bird_y, bird_vel)
                 ELSE E_update_y(bird_y, bird_vel)
    /\ out' = [op |-> "update", flapped |-> out.flapped]
    /\ iter' = iter + 1
    /\ UNCHANGED <<inp, state, blocks, powerups, score, highscore,
                   spawn_timer, slow_until, double_until, stream, paused,
                   last_volume, sensitivity, next_id, obs, smootherVars>>

InitBird ==
    /\ inp \in {"main", "entities"}
    /\ out = [op |-> "new", flapped |-> FALSE]
    /\ bird_y = IF inp = "main" THEN Px(BIRD_Y) ELSE 100 * BIRD_Y
    /\ bird_vel = 0
    /\ InitSession({M_sensitivity}, {0})
    /\ IdleSmoother

NextBird == BirdFlap \/ BirdUpdate

SpecBird == InitBird /\ [][NextBird]_vars

-----------------------------------------------------------------------------
(* SpecCollide: Block.collide and Block.collide_with on drawn geometries.   *)
(* inp: the block (x, w, top_h, gap) and the bird's position (bx, by), x,   *)
(* bx, by in half pixels; out: the two results.                             *)

\* the drawn coordinates lie up to NearPx half pixels from an edge of interest
NearPx == 3

Around(px) == {Px(px) + d : d \in -NearPx..NearPx}

CollideGeometries ==
    {[x |-> x, w |-> w, top_h |-> t, gap |-> g, bx |-> bx, by |-> by] :
        x \in Around(100) \cup Around(0), w \in {block_w, 70},
        t \in {0, 100, HEIGHT \div 2}, g \in {block_gap},
        bx \in Around(60) \cup Around(160) \cup Around(-40),
        by \in Around(-30) \cup Around(100) \cup Around(190)
               \cup Around(HEIGHT \div 2) \cup Around(340) \cup Around(HEIGHT)}

CollideCall ==
    /\ out = <<>>
    /\ out' = [main |-> collide(Block(0, inp.x, inp.w, inp.top_h, inp.gap),
                                inp.bx, inp.by),
               ent |-> collide_with(Block(0, inp.x, inp.w, inp.top_h, inp.gap),
                                    inp.bx, inp.by)]
    /\ UNCHANGED <<inp, gameVars, iter, smootherVars>>

InitCollide ==
    /\ inp \in CollideGeometries
    /\ out = <<>>
    /\ InitGame({M_sensitivity}, {0})
    /\ IdleSmoother

SpecCollide == InitCollide /\ [][CollideCall]_vars

-----------------------------------------------------------------------------
(* SpecOff: one Block created at x = 880 with width 70 and moved by the     *)
(* block speed 3.0 once per step; iter counts the moves.                    *)

MaxMoves == 330

MoveCall ==
    /\ iter < MaxMoves
    /\ blocks' = <<move(blocks[1], block_speed)>>
    /\ iter' = iter + 1
    /\ UNCHANGED <<state, bird_y, bird_vel, powerups, score, highscore,
                   spawn_timer, slow_until, double_until, stream, paused,
                   last_volume, sensitivity, next_id, obs, smootherVars,
                   funVars>>

InitOff ==
    /\ blocks = <<Block(0, Px(880), 70, 0, block_gap)>>
    /\ state = "Menu"
    /\ bird_y = Px(BIRD_Y) /\ bird_vel = 0
    /\ powerups = <<>>
    /\ score = 0 /\ highscore = 0
    /\ spawn_timer = 0 /\ slow_until = 0 /\ double_until = 0
    /\ stream = "none" /\ paused = FALSE
    /\ last_volume = 0
    /\ sensitivity = M_sensitivity
    /\ next_id = 1
    /\ obs = Obs("init", "none", FALSE, FALSE, 0, 0, "none", "none", {}, 0)
    /\ iter = 0
    /\ IdleSmoother /\ IdleFun

SpecOff == InitOff /\ [][MoveCall]_vars

-----------------------------------------------------------------------------
(* VolumeSmoother (audio.py 53-66) and SpecSmoother: a smoother of any      *)
(* capacity up to MaxWindow fed up to MaxSamples samples.                   *)

MaxWindow == 3
MaxSamples == 5

Samples == {0, 7, Murmur, 100}

\* VolumeSmoother.__init__: self.window
smoother_window(w) == Max(1, w)

\* an add that evicts the newest sample instead of the oldest
add_evicts_newest(h, win, v) ==
    IF Len(h) + 1 > win THEN SubSeq(h, 1, win - 1) \o <<v>> ELSE Append(h, v)

\* VolumeSmoother.add
add(h, win, v) ==
    IF Len(h) + 1 > win THEN Tail(Append(h, v)) ELSE Append(h, v)

RECURSIVE SeqSum(_)
SeqSum(q) == IF q = <<>> THEN 0 ELSE Head(q) + SeqSum(Tail(q))

\* VolumeSmoother.smooth, as the fraction <<numerator, denominator>>
smooth(h) == IF h = <<>> THEN <<0, 1>> ELSE <<SeqSum(h), Len(h)>>

SmootherAdd ==
    /\ Len(fed) < MaxSamples
    /\ \E v \in Samples :
          /\ history' = add(history, window, v)
          /\ fed' = Append(fed, v)
    /\ UNCHANGED <<window, gameVars, iter, funVars>>

InitSmoother ==
    /\ \E w \in 0..MaxWindow : window = smoother_window(w)
    /\ history = <<>>
    /\ fed = <<>>
    /\ InitGame({M_sensitivity}, {0})
    /\ IdleFun

SpecSmoother == InitSmoother /\ [][SmootherAdd]_vars

-----------------------------------------------------------------------------
(* Properties of the round: scoring, highscore, reset, bounds.              *)

\* C2: for every obstacle, once its passed flag is set it is never unset in
\* a later frame, the obstacle has added to the score in at most one frame
\* (aw counts the frames in which it did), and a frame's score gain comes
\* only from the obstacles whose flag that frame set, at most 2 points each.
C2_ScoresOnce ==
    [][state = "Playing" /\ obs'.op = "frame" =>
        /\ \A i \in DOMAIN blocks : \A j \in DOMAIN blocks' :
              (blocks'[j].id = blocks[i].id /\ blocks[i].passed)
                  => (blocks'[j].passed /\ blocks'[j].aw = blocks[i].aw)
        /\ \A j \in DOMAIN blocks' : blocks'[j].aw <= 1
        /\ score' - score <=
              2 * Cardinality({j \in DOMAIN blocks' :
                     /\ blocks'[j].passed
                     /\ ~ \E i \in DOMAIN blocks :
                            blocks[i].id = blocks'[j].id /\ blocks[i].passed})
      ]_vars

\* an obstacle that scored long ago is still in the collection, far left of
\* the bird, and has still scored once
C2_Witness ==
    /\ state = "Playing"
    /\ \E i \in DOMAIN blocks :
          blocks[i].passed /\ blocks[i].aw = 1 /\ blocks[i].x < -Px(50)
    /\ score >= 1

\* C3: the score is a non-negative integer that never decreases from one
\* frame of a round to the next; the highscore is untouched while the round
\* goes on and at round end becomes max(highscore, score), changing exactly
\* when the ending score strictly exceeds it; it never decreases.
C3_ScoreHighscore ==
    [][/\ score' \in Nat
       /\ (state = "Playing" /\ state' = "Playing")
             => (score' >= score /\ highscore' = highscore)
       /\ (state = "Playing" /\ state' = "RoundOver")
             => /\ score' >= score
                /\ highscore' = Max(highscore, score')
                /\ (highscore' # highscore <=> score' > highscore)
       /\ state # "Playing" => highscore' = highscore
       /\ highscore' >= highscore
      ]_vars

\* a round that ended with a score above the stored highscore overwrote it
C3_Witness == state = "RoundOver" /\ score = 2 /\ highscore = 2

\* C4: right after play() has entered Playing, whatever round came before,
\* the score is 0, both collections are empty, the bird is at its spawn
\* position with velocity 0, and the spawn timer and both expiry timers are
\* reset; no frame of the new round has run yet.
C4_RoundReset ==
    obs.op = "start" =>
        /\ state = "Playing"
        /\ score = 0
        /\ blocks = <<>> /\ powerups = <<>>
        /\ bird_y = Px(BIRD_Y) /\ bird_vel = 0
        /\ spawn_timer = 0
        /\ slow_until = 0 /\ double_until = 0
        /\ ~paused

\* a new round started after a round that ended in a collision with points
C4_Witness == obs.op = "start" /\ obs.prev = "collision" /\ highscore = 2

\* C8 (as in the code): a simulated frame ends the round as out of bounds
\* exactly when the bird is wholly above the top (y < -h) or its bottom edge
\* is below the bottom of the play area (y > HEIGHT - h).
C8_OutOfBounds ==
    obs.op = "frame" =>
        ((obs.ended \in {"out", "both"})
            <=> (bird_y < -Px(BIRD_H) \/ bird_y + Px(BIRD_H) > Px(HEIGHT)))

\* C8 (as stated): out of bounds exactly when y < -h or the bird is below
\* the bottom by more than its own height; a bird that only partly crosses
\* the bottom edge is not out.
C8_AsStated ==
    obs.op = "frame" =>
        ((obs.ended \in {"out", "both"})
            <=> (bird_y < -Px(BIRD_H) \/ bird_y > Px(HEIGHT + BIRD_H)))

\* the round ended with the bird's box only partly across the bottom edge
C8_Witness ==
    /\ obs.op = "frame" /\ obs.ended = "out"
    /\ bird_y > Px(HEIGHT - BIRD_H) /\ bird_y < Px(HEIGHT)

-----------------------------------------------------------------------------
(* Properties of the Bird, checked under SpecBird.                          *)

\* C5: after every update() (step() in main.py), whatever calls came
\* before, the velocity lies in [-max_fall, max_fall] and the position has
\* changed by exactly that clamped velocity.
C5_ClampedUpdate ==
    [][out'.op = "update" =>
        LET mf == IF inp = "main" THEN max_fall ELSE E_max_fall
        IN /\ bird_vel' >= -mf /\ bird_vel' <= mf
           /\ bird_y' - bird_y = bird_vel'
      ]_vars

\* an update right after a flap whose impulse exceeds max_fall (entities.py:
\* 9.0 against 7.0) left the velocity at the lower clamp
C5_Witness ==
    inp = "entities" /\ out.op = "update" /\ bird_vel = -E_max_fall

\* C6: while flap() has never been called, the velocity after n updates
\* from rest is n gravity increments, capped at exactly max_fall and held
\* there; right after a flap() the velocity is exactly minus the impulse,
\* whatever it was before.
C6_GravityAndFlap ==
    LET g == IF inp = "main" THEN gravity ELSE E_gravity
        mf == IF inp = "main" THEN max_fall ELSE E_max_fall
        j == IF inp = "main" THEN jump ELSE E_jump_strength
    IN /\ ~out.flapped => bird_vel = Min(iter * g, mf)
       /\ out.op = "flap" => bird_vel = -j

\* 25 updates of the main.py bird without a flap: the 24th reached the
\* clamp (24 * 0.5 = 12.0) and the 25th held it
C6_Witness ==
    /\ inp = "main" /\ ~out.flapped /\ iter = 25
    /\ bird_vel = max_fall

-----------------------------------------------------------------------------
(* Properties of Block, checked under SpecCollide and SpecOff.              *)

\* C7 (as in the code): for every drawn obstacle and bird box, collide and
\* collide_with answer false when the bird box lies fully inside the gap
\* band, and true when the box overlaps the top segment or the bottom
\* segment by at least one whole pixel both horizontally and vertically.
C7_CollidePixel ==
    out # <<>> =>
        LET bx2 == inp.bx + Px(BIRD_W)
            by2 == inp.by + Px(BIRD_H)
            xo == Min(bx2, inp.x + Px(inp.w)) - Max(inp.bx, inp.x)
            topo == Min(by2, Px(inp.top_h)) - Max(inp.by, 0)
            boto == Min(by2, Px(HEIGHT)) - Max(inp.by, Px(inp.top_h + inp.gap))
            inGap == Px(inp.top_h) <= inp.by /\ by2 <= Px(inp.top_h + inp.gap)
        IN /\ inGap => (~out.main /\ ~out.ent)
           /\ (xo >= Px(1) /\ (topo >= Px(1) \/ boto >= Px(1)))
                 => (out.main /\ out.ent)

\* C7 (as stated): false when fully inside the gap band, true whenever the
\* bird box, fractional coordinates included, overlaps the top or the
\* bottom segment at all.
C7_AsStated ==
    out # <<>> =>
        LET bx2 == inp.bx + Px(BIRD_W)
            by2 == inp.by + Px(BIRD_H)
            xo == Min(bx2, inp.x + Px(inp.w)) - Max(inp.bx, inp.x)
            topo == Min(by2, Px(inp.top_h)) - Max(inp.by, 0)
            boto == Min(by2, Px(HEIGHT)) - Max(inp.by, Px(inp.top_h + inp.gap))
            inGap == Px(inp.top_h) <= inp.by /\ by2 <= Px(inp.top_h + inp.gap)
        IN /\ inGap => (~out.main /\ ~out.ent)
           /\ (xo > 0 /\ (topo > 0 \/ boto > 0)) => (out.main /\ out.ent)

\* a bird at a fractional height reaching 1.5 pixels into the bottom
\* segment, well inside the obstacle horizontally, is reported as a hit
C7_Witness ==
    /\ out # <<>> /\ out.main /\ out.ent
    /\ inp.top_h = 100
    /\ inp.by + Px(BIRD_H) - Px(inp.top_h + inp.gap) = 3
    /\ inp.x = Px(100) /\ inp.bx = Px(60) + 3

\* C9 (as in the code): the obstacle created at x = 880 with width 70 and
\* moved by 3.0 per frame is off-screen (x + w < -10) after 321 or more
\* moves and after no fewer, by off() and by off_screen() alike.
C9_OffAfter321 ==
    /\ off(blocks[1]) <=> iter >= 321
    /\ off_screen(blocks[1]) <=> iter >= 321

\* C9 (as stated): it is off-screen after 320 or more moves and no fewer.
C9_AsStated ==
    /\ off(blocks[1]) <=> iter >= 320
    /\ off_screen(blocks[1]) <=> iter >= 320

\* the 321st move has put the trailing edge at -13, past -10
C9_Witness ==
    iter = 321 /\ blocks[1].x + Px(blocks[1].w) = -Px(13) /\ off(blocks[1])

-----------------------------------------------------------------------------
(* Property of VolumeSmoother, checked under SpecSmoother.                  *)

\* C10: after the i-th add to a smoother of capacity K the held window is
\* exactly the last min(i, K) samples fed, in the order fed, and smooth()
\* is their arithmetic mean; with no samples smooth() is 0.
C10_SlidingMean ==
    LET n == Min(Len(fed), window)
        S[k \in 0..n] ==
            IF k = 0 THEN 0 ELSE S[k - 1] + fed[Len(fed) - n + k]
        m == smooth(history)
    IN /\ Len(history) = n
       /\ \A k \in 1..n : history[k] = fed[Len(fed) - n + k]
       /\ n = 0 => m[1] = 0
       /\ n > 0 => m[1] * n = S[n] * m[2]
       /\ m[2] > 0

\* a window of 3 after 5 adds holds the last three samples, the first two
\* having been evicted
C10_Witness ==
    /\ window = 3 /\ Len(fed) = 5
    /\ fed[1] = 100 /\ fed[2] = 0
    /\ history = <<7, Murmur, 100>>

-----------------------------------------------------------------------------
(* The flap decision of the loop, checked under SpecFree.                   *)

\* C1: in every simulated (non-paused) frame the bird is flapped exactly
\* when smoothed volume * sensitivity > mic_threshold, and by nothing
\* else.  Stated for the frames where every volume read so far is the one
\* read now, so that the smoothed volume is that volume whatever the
\* window: with sensitivity 0.6 a volume of 0.15 must flap.
C1_AsStated ==
    (obs.op = "frame" /\ obs.heard = {obs.volume}) =>
        ((obs.flapKey \/ obs.flapMic)
            <=> obs.volume * sensitivity > S_mic_threshold)

-----------------------------------------------------------------------------
(* SpecStall: the player of Spec in a game whose first frame of a round may *)
(* take Stall ticks instead of one, which moves the spawns against the      *)
(* bird's flight.  The highscore file was empty and ESC is not pressed.     *)

Stall == 100

StallFrame ==
    /\ next_id = 0 /\ spawn_timer = 0
    /\ Frame("none", Stall, NoTop, NoPu)
    /\ UNCHANGED iter

InitStall == InitGame({M_sensitivity}, {0}) /\ IdleSmoother /\ IdleFun

NextStall ==
    \/ \E ok \in BOOLEAN : MenuStart(ok)
    \/ GameOverKey
    \/ PlayerCb
    \/ PlayerFrame
    \/ StallFrame

SpecStall == InitStall /\ [][NextStall]_vars

-----------------------------------------------------------------------------
(* The death feedback of a round, checked under SpecStall.                  *)

\* C11: Bird.play_die is called at most once in a round: exactly once in the
\* frame that ends the round by an obstacle collision, by leaving the play
\* area, or by both at once, and never in any other loop iteration.
C11_AsStated ==
    /\ obs.dies <= 1
    /\ obs.ended \in {"collision", "out", "both"} => obs.dies = 1
    /\ obs.ended \in {"none", "quit"} => obs.dies = 0

-----------------------------------------------------------------------------
(* The degraded microphone, checked under SpecFree.                         *)

\* C12: in a round whose stream failed to open (the round is being played
\* and no stream is held), every frame reads the volume 0 and the
\* microphone test does not flap the bird, whatever earlier rounds captured.
C12_AsStated ==
    (state = "Playing" /\ stream = "none" /\ obs.op = "frame")
        => (obs.volume = 0 /\ ~obs.flapMic)

-----------------------------------------------------------------------------
(* load_settings and load_highscore (settings.py 26-58, main.py 65-88) and  *)
(* SpecLoad, which applies them to drawn files.  A JSON value is a record   *)
(* [t, v]: t its type, v its number in the unit of its key (0 otherwise).   *)
(* A settings file is [kind, obj]: kind "missing", "garbage" (not JSON),    *)
(* "scalar" (a JSON number or null), "list" (a JSON array), "keylist" (a    *)
(* JSON array holding the names of all the default keys) or "object".       *)

Absent == [t |-> "absent", v |-> 0]
Num(n) == [t |-> "num", v |-> n]
NumStr(n) == [t |-> "numstr", v |-> n]
Text == [t |-> "text", v |-> 0]
Null == [t |-> "null", v |-> 0]
Bool(b) == [t |-> "bool", v |-> IF b THEN 1 ELSE 0]

\* float(x) raises for a non-numeric string and for None
float_ok(x) == x.t \in {"num", "numstr"}
to_float(x) == Num(x.v)
\* bool(x): a non-empty string is True, None is False
to_bool(x) ==
    Bool(CASE x.t = "bool" -> x.v = 1
           [] x.t = "num" -> x.v # 0
           [] x.t \in {"numstr", "text"} -> TRUE
           [] OTHER -> FALSE)

S_volume == 60
M_volume == 60

\* settings.py DEFAULT_SETTINGS
S_DEFAULT_SETTINGS ==
    [volume |-> Num(S_volume), muted |-> Bool(FALSE),
     sensitivity |-> Num(S_sensitivity), mic_threshold |-> Num(S_mic_threshold)]

\* main.py DEFAULT_SETTINGS; mic_threshold is not among its keys
M_DEFAULT_SETTINGS ==
    [volume |-> Num(M_volume), muted |-> Bool(FALSE),
     sensitivity |-> Num(M_sensitivity), show_debug |-> Bool(FALSE),
     mic_threshold |-> Absent]

SettingKeys == {"volume", "muted", "sensitivity", "mic_threshold"}

NoObject == [k \in SettingKeys |-> Absent]

\* settings.py load_settings: the conversions run in the order volume,
\* sensitivity, mic_threshold, muted and stop at the first that raises; the
\* handler's setdefault changes nothing, every key being present by then
load_settings(f) ==
    LET s0 == IF f.kind = "object" THEN f.obj ELSE NoObject
        s1 == [k \in SettingKeys |->
                  IF s0[k].t = "absent" THEN S_DEFAULT_SETTINGS[k] ELSE s0[k]]
        ok1 == float_ok(s1.volume)
        ok2 == ok1 /\ float_ok(s1.sensitivity)
        ok3 == ok2 /\ float_ok(s1.mic_threshold)
    IN  [volume |-> IF ok1 THEN to_float(s1.volume) ELSE s1.volume,
         sensitivity |-> IF ok2 THEN to_float(s1.sensitivity)
                         ELSE s1.sensitivity,
         mic_threshold |-> IF ok3 THEN to_float(s1.mic_threshold)
                           ELSE s1.mic_threshold,
         muted |-> IF ok3 THEN to_bool(s1.muted) ELSE s1.muted]

\* main.py load_settings: [dict, s]; dict is FALSE when the JSON array that
\* names every default key is returned as it is
M_load_settings(f) ==
    CASE f.kind = "object" ->
            [dict |-> TRUE,
             s |-> [k \in DOMAIN M_DEFAULT_SETTINGS |->
                       IF k \in SettingKeys /\ f.obj[k].t # "absent"
                       THEN f.obj[k] ELSE M_DEFAULT_SETTINGS[k]]]
      [] f.kind = "keylist" -> [dict |-> FALSE, s |-> M_DEFAULT_SETTINGS]
      [] OTHER -> [dict |-> TRUE, s |-> M_DEFAULT_SETTINGS]

\* load_highscore, the same in both files: int(f.read()); h is [t, v] with
\* t "missing", "text", "float" ("3.5"), "int" or "padded" (" 7\n")
load_highscore(h) == IF h.t \in {"int", "padded"} THEN h.v ELSE 0

NumberValues == {Absent, Num(3), NumStr(3), Text, Null}
MutedValues == {Absent, Bool(TRUE), Bool(FALSE), Text}

SettingsFiles ==
    {[kind |-> k, obj |-> NoObject] :
        k \in {"missing", "garbage", "scalar", "list", "keylist"}}
    \cup {[kind |-> "object",
           obj |-> [volume |-> a, sensitivity |-> b, mic_threshold |-> c,
                    muted |-> d]] :
            a \in NumberValues, b \in NumberValues, c \in NumberValues,
            d \in MutedValues}

HighscoreFiles ==
    {[t |-> t, v |-> 0] : t \in {"missing", "text", "float"}}
    \cup {[t |-> t, v |-> 7] : t \in {"int", "padded"}}

LoadCall ==
    /\ out = <<>>
    /\ out' = [settings |-> load_settings(inp.settings),
               main |-> M_load_settings(inp.settings),
               highscore |-> load_highscore(inp.highscore)]
    /\ UNCHANGED <<inp, gameVars, iter, smootherVars>>

InitLoad ==
    /\ inp \in [settings : SettingsFiles, highscore : HighscoreFiles]
    /\ out = <<>>
    /\ InitGame({M_sensitivity}, {0})
    /\ IdleSmoother

SpecLoad == InitLoad /\ [][LoadCall]_vars

\* C13: loading never fails, and for each of volume, sensitivity,
\* mic_threshold and muted the loaded value is the compiled-in default when
\* the file is missing, unparsable or not a JSON object, when the key is
\* absent, and when a numeric key holds a non-numeric value; the highscore
\* loaded from a missing or malformed file is 0.
C13_AsStated ==
    out # <<>> =>
        LET f == inp.settings
            fallsBack(k) ==
                \/ f.kind # "object"
                \/ f.obj[k].t = "absent"
                \/ k # "muted" /\ f.obj[k].t \in {"text", "null"}
        IN  /\ \A k \in SettingKeys :
                  fallsBack(k) => out.settings[k] = S_DEFAULT_SETTINGS[k]
            /\ out.main.dict
            /\ \A k \in SettingKeys \ {"mic_threshold"} :
                  fallsBack(k) => out.main.s[k] = M_DEFAULT_SETTINGS[k]
            /\ inp.highscore.t \in {"missing", "text", "float"}
                  => out.highscore = 0

-----------------------------------------------------------------------------
(* The stream of a round, checked under Spec.                               *)

\* C14: outside Playing no stream is held; a stream is opened only on
\* entering Playing, from a state that holds none, and is neither reopened
\* nor closed while the round goes on; every step that leaves Playing, by
\* collision, out of bounds or ESC, leaves no stream; and whenever the
\* highscore is overwritten the stream has been stopped.
C14_StreamPerRound ==
    [][/\ state' # "Playing" => stream' = "none"
       /\ (state = "Playing" /\ state' = "Playing") => stream' = stream
       /\ (state # "Playing" /\ state' = "Playing") => stream = "none"
       /\ highscore' # highscore => stream' = "none"
      ]_vars

\* a round that had an open stream (the clap was heard) has ended by a
\* collision with a new highscore, and the stream is closed
C14_Witness ==
    /\ state = "RoundOver" /\ obs.ended = "collision"
    /\ Loud \in obs.heard
    /\ score > 0 /\ highscore = score
    /\ stream = "none"

-----------------------------------------------------------------------------
(* The latest-volume slot, checked under SpecFree with the callback and the *)
(* loop interleaved freely.                                                 *)

\* C15: a step that writes the latest-volume slot (the callback) changes
\* nothing else: not the bird, the obstacles, the power-ups, the score, the
\* timers or the round; a simulated frame does not write the slot, and the
\* volume it reads is what the slot held when the frame began, that is the
\* initial 0 or the value of the last callback before it.
C15_LatestVolume ==
    [][/\ last_volume' # last_volume =>
             UNCHANGED <<state, bird_y, bird_vel, blocks, powerups, score,
                         highscore, spawn_timer, slow_until, double_until,
                         stream, paused, sensitivity, next_id, obs>>
       /\ iter' # iter =>
             /\ last_volume' = last_volume
             /\ obs'.op = "frame" => obs'.volume = last_volume
      ]_vars

\* the second frame read the background noise that a callback had written
\* over the clap read by the first frame
C15_Witness ==
    /\ obs.op = "frame" /\ iter = 2
    /\ obs.volume = Murmur /\ obs.heard = {Loud, Murmur}

-----------------------------------------------------------------------------
(* The frame of an obstacle collision, checked under Spec.                  *)

\* C16: a frame in which an obstacle is hit ends the round at once: the
\* obstacles after the one hit are left as they were, and no power-up that
\* was in the collection is moved or collected, and neither effect is
\* started, in that frame.
C16_AsStated ==
    [][(state = "Playing" /\ obs'.op = "frame"
            /\ obs'.ended \in {"collision", "both"}) =>
        /\ state' = "RoundOver"
        /\ \E h \in DOMAIN blocks' :
              /\ collide(blocks'[h], Px(BIRD_X), bird_y')
              /\ \A j \in DOMAIN blocks' : \A i \in DOMAIN blocks :
                    (j > h /\ blocks[i].id = blocks'[j].id)
                        => blocks'[j] = blocks[i]
        /\ \A i \in DOMAIN powerups : \E j \in DOMAIN powerups' :
              powerups'[j] = powerups[i]
        /\ slow_until' <= slow_until
        /\ double_until' <= double_until
      ]_vars

-----------------------------------------------------------------------------
(* SpecPower: one round of a player who never misses: the callback runs     *)
(* whenever the bird has just sunk to ClapLine or just risen above it,      *)
(* before the next frame.  Each of the first two frames may take LongDt     *)
(* ticks, which spawns a block at once; a power-up of either kind, in the   *)
(* bird's flight or far above it, may come with each of the first two       *)
(* blocks.  The round is followed for MaxPowerSpawns blocks.                *)

MaxPowerSpawns == 4

\* outcomes of spawn_powerup that are tried: y in the bird's flight (240) or not (60)
PowerChoices == {[kind |-> k, y |-> y] : k \in {"slow", "double"}, y \in {60, 240}}

CbDue ==
    /\ stream = "open"
    /\ \/ JustSunk /\ last_volume # Loud
       \/ JustRisen /\ last_volume # 0

PowerFrame ==
    /\ ~CbDue
    /\ \E dt \in {1, LongDt}, top \in {180, NoTop},
          pu \in PowerChoices \cup {NoPu} :
          /\ dt = LongDt => (next_id <= 1 /\ spawn_timer = 0)
          /\ pu # NoPu => next_id <= 1
          /\ FrameUpTo(MaxPowerSpawns, "none", dt, top, pu)
    /\ UNCHANGED iter

InitPower == InitGame({M_sensitivity}, {0}) /\ IdleSmoother /\ IdleFun

NextPower ==
    \/ \E ok \in BOOLEAN : MenuStart(ok)
    \/ PlayerCb
    \/ PowerFrame

SpecPower == InitPower /\ [][NextPower]_vars

-----------------------------------------------------------------------------
(* Properties of the power-ups, checked under SpecPower.                    *)

\* C17: a frame that collects a slow power-up leaves the slow effect with
\* exactly 4.0 s to run from that frame, whether or not it was running, and
\* a frame that collects a double power-up leaves the double effect with
\* exactly 5.0 s to run; a frame that does not collect a kind leaves that
\* kind's expiry where it was (its time left only runs down).  A step is a
\* frame exactly when it moves the bird or changes its velocity.
C17_EffectExpiry ==
    [][(state = "Playing" /\ obs'.op = "frame"
            /\ <<bird_y, bird_vel>>' # <<bird_y, bird_vel>>) =>
        LET got(k) == \E j \in DOMAIN powerups' : \E i \in DOMAIN powerups :
                          /\ powerups'[j].id = powerups[i].id
                          /\ powerups'[j].kind = k
                          /\ powerups'[j].used = powerups[i].used + 1
            runsDown(before, after) ==
                after \in {left(before, 1), left(before, LongDt)}
        IN  /\ IF got("slow") THEN slow_until' = EffectSlow
               ELSE runsDown(slow_until, slow_until')
            /\ IF got("double") THEN double_until' = EffectDouble
               ELSE runsDown(double_until, double_until')
      ]_vars

\* a slow power-up was collected while an earlier slow effect still had time
\* left, and the effect now has 4.0 s to run
C17_Witness ==
    /\ slow_until = EffectSlow
    /\ \E i \in DOMAIN powerups :
          /\ powerups[i].kind = "slow" /\ ~powerups[i].active
          /\ powerups[i].used = 1 /\ powerups[i].over > 0


\* C18: in a Playing frame every obstacle that is moved and every power-up
\* moves by one and the same scroll speed: half the base speed when the slow
\* effect had time left at the frame's now, the base speed otherwise
\* (obstacles behind a hit one are not moved; a spawned obstacle or power-up
\* moves from its spawn position).  Every obstacle passed in the frame awards
\* 2 when the double effect had time left at now and 1 otherwise.
C18_ScrollAndPoints ==
    [][(state = "Playing" /\ obs'.op = "frame"
            /\ <<bird_y, bird_vel>>' # <<bird_y, bird_vel>>) =>
        LET now_slow == slow_until > obs'.dt
            now_double == double_until > obs'.dt
            speed == IF now_slow THEN block_speed \div 2 ELSE block_speed
            pts == IF now_double THEN 2 ELSE 1
            hit == obs'.ended \in {"collision", "both"}
            x0(b) == IF \E i \in DOMAIN blocks : blocks[i].id = b.id
                     THEN blocks[CHOOSE i \in DOMAIN blocks : blocks[i].id = b.id].x
                     ELSE Px(WIDTH + BLOCK_MARGIN)
            px0(q) == IF \E i \in DOMAIN powerups : powerups[i].id = q.id
                      THEN powerups[CHOOSE i \in DOMAIN powerups :
                                        powerups[i].id = q.id].x
                      ELSE Px(WIDTH + PU_MARGIN)
            aw0(b) == IF \E i \in DOMAIN blocks : blocks[i].id = b.id
                      THEN blocks[CHOOSE i \in DOMAIN blocks : blocks[i].id = b.id].aw
                      ELSE 0
            awarded == {j \in DOMAIN blocks' : blocks'[j].aw > aw0(blocks'[j])}
        IN  /\ \A j \in DOMAIN blocks' :
                  \/ x0(blocks'[j]) - blocks'[j].x = speed
                  \/ hit /\ blocks'[j].x = x0(blocks'[j])
            /\ \A j \in DOMAIN powerups' :
                  px0(powerups'[j]) - powerups'[j].x = speed
            /\ score' - score = pts * Cardinality(awarded)
            /\ \A j \in awarded : blocks'[j].aw = aw0(blocks'[j]) + 1
      ]_vars

\* a block has been passed at half speed while the double effect ran: the one
\* increment of the round was 2
C18_Witness ==
    /\ state = "Playing" /\ obs.op = "frame"
    /\ slow_until > 0 /\ double_until > 0
    /\ score = 2
    /\ \E i \in DOMAIN blocks : blocks[i].aw = 1 /\ blocks[i].passed
    /\ Cardinality({i \in DOMAIN blocks : blocks[i].passed}) = 1


\* C19: a Playing frame spawns at most one obstacle, and spawns it exactly
\* when the spawn timer plus the frame's time exceeds the spawn interval; the
\* timer is then zero, however long the frame took, and otherwise it has
\* grown by the frame's time.  A power-up is spawned only together with an
\* obstacle, one at most, so the power-ups of a round are never more than its
\* obstacles.  A paused or quitting iteration spawns nothing.
C19_SpawnCadence ==
    [][(state = "Playing" /\ obs'.op \in {"frame", "paused", "quit"}) =>
        LET frame == /\ obs'.op = "frame"
                     /\ <<bird_y, bird_vel>>' # <<bird_y, bird_vel>>
            t == spawn_timer + obs'.dt
            old_blocks == {blocks[i].id : i \in DOMAIN blocks}
            old_pus == {powerups[i].id : i \in DOMAIN powerups}
            new_blocks == {j \in DOMAIN blocks' : blocks'[j].id \notin old_blocks}
            new_pus == {j \in DOMAIN powerups' : powerups'[j].id \notin old_pus}
        IN  IF frame /\ t > spawn_interval
            THEN /\ spawn_timer' = 0
                 /\ next_id' = next_id + 1
                 /\ Cardinality(new_blocks) = 1
                 /\ \A j \in new_blocks : blocks'[j].id = next_id
                 /\ Cardinality(new_pus) <= 1
                 /\ \A j \in new_pus : powerups'[j].id = next_id
            ELSE /\ spawn_timer' = IF frame THEN t ELSE spawn_timer
                 /\ next_id' = next_id
                 /\ new_blocks = {} /\ new_pus = {}
      ]_vars

\* a frame that took more than two spawn intervals has spawned one obstacle
\* and one power-up, and the frame after it has spawned nothing
C19_Witness ==
    /\ state = "Playing" /\ obs.op = "frame" /\ obs.dt = 1
    /\ iter = 2 /\ next_id = 1 /\ spawn_timer = 1
    /\ Len(blocks) = 1 /\ Len(powerups) = 1
    /\ LongDt > 2 * spawn_interval


\* C20: a power-up applies its effect at most once.  In a Playing frame an
\* effect is applied only by a power-up that was active before the frame and
\* is inactive after it; an effect's expiry is set in a frame only by such a
\* collection; and a power-up that was inactive before the frame's pass is
\* no longer in the collection after it.  A power-up scrolled past
\* x < -size is deactivated and removed in one and the same pass.
C20_EffectOnce ==
    [][(state = "Playing" /\ obs'.op = "frame"
            /\ <<bird_y, bird_vel>>' # <<bird_y, bird_vel>>) =>
        LET before(q) == powerups[CHOOSE i \in DOMAIN powerups :
                                      powerups[i].id = q.id]
            was(q) == \E i \in DOMAIN powerups : powerups[i].id = q.id
            applied(q) == q.used > (IF was(q) THEN before(q).used ELSE 0)
            got(k) == \E j \in DOMAIN powerups' :
                          powerups'[j].kind = k /\ applied(powerups'[j])
        IN  /\ \A j \in DOMAIN powerups' :
                  LET q == powerups'[j]
                  IN  /\ q.used <= 1
                      /\ applied(q) => ~q.active /\ (was(q) => before(q).active)
                      /\ ~q.active => applied(q)
                      /\ q.x >= -Px(PU_SIZE)
            /\ \A i \in DOMAIN powerups :
                  ~powerups[i].active =>
                      \A j \in DOMAIN powerups' :
                          powerups'[j].id # powerups[i].id
            /\ slow_until' # left(slow_until, obs'.dt) => got("slow")
            /\ double_until' # left(double_until, obs'.dt) => got("double")
      ]_vars

\* a collected power-up, deactivated by the frame that applied its effect, is
\* still in the collection while another power-up has scrolled on past the bird
C20_Witness ==
    /\ state = "Playing" /\ obs.op = "frame"
    /\ \E i, j \in DOMAIN powerups :
          /\ ~powerups[i].active /\ powerups[i].used = 1
          /\ powerups[j].active /\ powerups[j].used = 0
          /\ powerups[j].x < powerups[i].x


\* C21: in a Playing frame without a collision every obstacle that is in the
\* collection when the obstacle pass starts (the one spawned in the frame
\* included) is moved by the frame's scroll speed exactly once, and after the
\* pass the collection holds, in the order they had, exactly the obstacles
\* with x + width >= -10.
C21_PassOverCopy ==
    [][(state = "Playing" /\ obs'.op = "frame"
            /\ <<bird_y, bird_vel>>' # <<bird_y, bird_vel>>
            /\ obs'.ended \notin {"collision", "both"}) =>
        LET speed == IF slow_until > obs'.dt THEN block_speed \div 2
                     ELSE block_speed
            at(b) == [id |-> b.id, x |-> b.x, w |-> b.w]
            start == [i \in DOMAIN blocks |-> at(blocks[i])]
                     \o (IF next_id' # next_id
                         THEN <<[id |-> next_id, x |-> Px(WIDTH + BLOCK_MARGIN),
                                 w |-> block_w]>>
                         ELSE <<>>)
            moved == [i \in DOMAIN start |->
                         [start[i] EXCEPT !.x = @ - speed]]
            on_screen(b) == b.x + Px(b.w) >= -Px(OFF_MARGIN)
        IN  [j \in DOMAIN blocks' |-> at(blocks'[j])]
                = SelectSeq(moved, on_screen)
      ]_vars

\* the first obstacle of the round has been removed while the two behind it
\* stayed, in their order
C21_Witness ==
    /\ state = "Playing" /\ obs.op = "frame" /\ obs.ended = "none"
    /\ Len(blocks) = 2
    /\ blocks[1].id = 1 /\ blocks[2].id = 2
    /\ blocks[1].x < blocks[2].x


-----------------------------------------------------------------------------
(* SpecSpawn: spawn_block on every draw of top_h.  inp: the draw; out: the  *)
(* block.                                                                   *)

SpawnCall ==
    /\ out = <<>>
    /\ out' = spawn_block(0, inp)
    /\ UNCHANGED <<inp, gameVars, iter, smootherVars>>

InitSpawn ==
    /\ inp \in top_draws
    /\ out = <<>>
    /\ InitGame({M_sensitivity}, {0})
    /\ IdleSmoother

SpecSpawn == InitSpawn /\ [][SpawnCall]_vars

\* C22: every obstacle that spawn_block creates has top_h >= 0 and
\* top_h + gap < HEIGHT, whatever top_h was drawn: the bottom segment of
\* Block.collide has a height above zero and the gap lies inside the window.
C22_GapInside ==
    out # <<>> =>
        /\ out.top_h >= 0
        /\ out.top_h + out.gap < HEIGHT
        /\ HEIGHT - (out.top_h + out.gap) > 0
        /\ out.gap > 0

\* the block of the largest draw: its gap ends 130 pixels above the bottom
C22_Witness ==
    /\ out # <<>>
    /\ inp = HEIGHT \div 2
    /\ out.top_h = HEIGHT \div 2
    /\ out.top_h + out.gap = HEIGHT - 130


\* C23: a loop iteration that starts and ends paused leaves the bird's
\* position and velocity, the obstacles, the power-ups, the score and the
\* spawn timer as they were, whatever key arrived.
C23_AsStated ==
    [][(state = "Playing" /\ paused /\ paused') =>
           UNCHANGED <<bird_y, bird_vel, blocks, powerups, score, spawn_timer>>
      ]_vars


\* C24: an obstacle that has been marked passed lies left of the bird: the
\* rectangles that Block.collide builds for it end at or before the bird's x,
\* so that it collides with the bird at no height, in the frame that marked it
\* and in every later one; the obstacle a round ends on is never a scored one.
C24_PassedNeverCollides ==
    \A i \in DOMAIN blocks :
        blocks[i].passed =>
            /\ IntPx(blocks[i].x) + blocks[i].w <= BIRD_X
            /\ ~collide(blocks[i], Px(BIRD_X), bird_y)
            /\ \A y \in {-BIRD_H, 0, blocks[i].top_h, HEIGHT - BIRD_H} :
                   ~collide(blocks[i], Px(BIRD_X), Px(y))

\* frames after an obstacle was scored the bird is at a height that one of the
\* obstacle's segments covers: only the obstacle's place left of the bird
\* keeps them apart
C24_Witness ==
    /\ obs.op = "frame"
    /\ \E i \in DOMAIN blocks :
          /\ blocks[i].passed /\ blocks[i].aw = 1
          /\ trailing_edge(blocks[i]) < Px(BIRD_X) - 2 * block_speed
          /\ \/ IntPx(bird_y) < blocks[i].top_h
             \/ IntPx(bird_y) + BIRD_H > blocks[i].top_h + blocks[i].gap

=============================================================================
